---------------------------- MODULE Spec2Model ----------------------------
(***************************************************************************)
(* Model of the ProjectQ plugin (src/openqml/plugins/projectq.py): the     *)
(* gate/observable descriptors, the capability negotiation done by         *)
(* PluginAPI.__init__, the engine/register lifecycle (reset,               *)
(* execute_circuit, measure, __del__) and the per-backend expectation      *)
(* estimator Observable.execute.                                           *)
(*                                                                         *)
(* The ProjectQ backend is opaque: the model records every operation the   *)
(* plugin issues to it in `log`, and draws the backend's answers (probe    *)
(* outcomes, expectation values, classical bits) nondeterministically.     *)
(***************************************************************************)
EXTENDS Integers, Sequences, FiniteSets, TLC

VARIABLES
    pc,           \* "new" | "idle" | "returned" | "dead": the caller's position
    backend,      \* self.backend
    gates,        \* keys of self._gates
    observables,  \* keys of self._observables
    eng,          \* self.eng: None or the id of a MainEngine
    reg,          \* self.reg: NoReg or a register [eng |-> owner, size |-> n]
    flagged,      \* engines whose already_a_measurement_performed is True
    engines,      \* number of MainEngine objects constructed so far
    estimated,    \* an estimation completed since construction / the last reset() call
    log,          \* backend operations issued by the call that last ran
    last,         \* outcome of the call that last ran
    first         \* the run a caller kept in order to repeat it after a reset()

vars == <<pc, backend, gates, observables, eng, reg, flagged, engines, estimated, log, last, first>>

----------------------------------------------------------------------------
(* Bounds of the model. *)

\* longest circuit a caller submits
MaxLen == 2
\* number of MainEngine objects one behaviour may construct
MaxEngines == 4
\* the same, for a behaviour that repeats a run after a reset()
MaxRerunEngines == 7
\* expectation values are fixed-point numbers k / Unit with -Unit <= k <= Unit,
\* variances are in units of 1 / Unit^2
Unit == 2

----------------------------------------------------------------------------
(* Python values. *)

None == 0
NoReg == [eng |-> None, size |-> 0]

\* a gate parameter: a ParRef(idx) or a literal value
ParRef(i) == [ref |-> TRUE, v |-> i]
Lit(x) == [ref |-> FALSE, v |-> x]

\* what Gate.execute / Observable.execute return
NoneVal == [tag |-> "None", ev |-> <<>>, var |-> <<>>]
Pair(e, v) == [tag |-> "pair", ev |-> <<e>>, var |-> <<v>>]
Lists(es, vs) == [tag |-> "lists", ev |-> es, var |-> vs]
\* what backend.get_expectation_value returns
Answer(e) == [tag |-> "answer", ev |-> <<e>>, var |-> <<>>]

\* what execute_circuit returns: None, or the array of the requested entries
NoneRet == [tag |-> "None", vals |-> <<>>]
ArrayRet(vals) == [tag |-> "array", vals |-> vals]

Max(S) == CHOOSE m \in S : \A n \in S : n <= m

----------------------------------------------------------------------------
(* Gate and observable descriptors. *)

Gate(name, n_sys, n_par, cls) ==
    [name |-> name, n_sys |-> n_sys, n_par |-> n_par, cls |-> cls, observable |-> FALSE]

Observable(name, n_sys, n_par, cls) ==
    [name |-> name, n_sys |-> n_sys, n_par |-> n_par, cls |-> cls, observable |-> TRUE]

H == Gate("H", 1, 0, "HGate")
X == Gate("X", 1, 0, "XGate")
Y == Gate("Y", 1, 0, "YGate")
Z == Gate("Z", 1, 0, "ZGate")
S == Gate("S", 1, 0, "SGate")
T == Gate("T", 1, 0, "TGate")
SqrtX == Gate("SqrtX", 1, 0, "SqrtXGate")
Swap == Gate("Swap", 2, 0, "SwapGate")
SqrtSwap == Gate("SqrtSwap", 2, 0, "SqrtSwapGate")
Rx == Gate("Rx", 1, 1, "Rx")
Ry == Gate("Ry", 1, 1, "Ry")
Rz == Gate("Rz", 1, 1, "Rz")
R == Gate("R", 1, 1, "R")
CRz == Gate("CRz", 2, 1, "CRz")
CNOT == Gate("CNOT", 2, 0, "CNOTClass")
CZ == Gate("CZ", 2, 0, "CZClass")
AllZ == Gate("AllZ", 1, 0, "AllZClass")

MeasureX == Observable("X", 1, 0, "pq.ops.X")
MeasureY == Observable("Y", 1, 0, "pq.ops.Y")
MeasureZ == Observable("Z", 1, 0, "pq.ops.Z")
MeasureAllZ == Observable("AllZ", 1, 0, "AllZClass")

\* the lists `gates` and `observables` of PluginAPI.__init__
GateList == <<H, X, Y, Z, S, T, SqrtX, Swap, SqrtSwap, Rx, Ry, Rz, R, CRz, CNOT, CZ>>
ObservableList == <<MeasureX, MeasureY, MeasureZ, MeasureAllZ>>

Names(list) == {list[i].name : i \in DOMAIN list}

\* a parametrized descriptor outside the catalog (Ph is commented out there)
Ph == Gate("Ph", 1, 1, "Ph")

\* a caller's observable on two subsystems, built as the catalog builds MeasureZ
MeasureZZ == Observable("ZZ", 2, 0, "pq.ops.Z")

----------------------------------------------------------------------------
(* Commands and circuits. *)

Command(gate, r, par) == [gate |-> gate, reg |-> r, par |-> par]

\* Circuit.n_sys: the number of subsystems, one more than the largest index used
n_sys(seq) ==
    Max({0} \cup UNION {{seq[i].reg[j] + 1 : j \in DOMAIN seq[i].reg} : i \in DOMAIN seq})

\* Circuit(seq, name, out=None): `given` is FALSE for out=None
Circuit(seq, name, out) == [seq |-> seq, name |-> name, out |-> out, n_sys |-> n_sys(seq)]
NoOut == [given |-> FALSE, idx |-> <<>>]
Out(idx) == [given |-> TRUE, idx |-> idx]

----------------------------------------------------------------------------
(* The session while a call runs: the fields of `self`, the engines       *)
(* constructed so far, the operations issued to the backend, the pending  *)
(* exception (err), the value of the last descriptor.execute (val) and    *)
(* of the last execute_circuit (ret), the depth of execute_circuit, and   *)
(* the handles self.eng / self.reg as they were when each command of the  *)
(* caller's circuit started (live).                                       *)

Entry(s, op, e, size, name, q, par, val) ==
    [op |-> op, depth |-> s.depth, eng |-> e, size |-> size, name |-> name,
     q |-> q, par |-> par, val |-> val]

Emit(s, entry) == [s EXCEPT !.log = Append(@, entry)]

Raise(s, e) == [s EXCEPT !.err = e]

\* pq.MainEngine(backend): a new engine object, with no measurement attribute
MainEngine(s) ==
    LET id == s.engines + 1
    IN  Emit([s EXCEPT !.engines = id, !.eng = id],
             Entry(s, "MainEngine", id, 0, s.backend, <<>>, <<>>, NoneVal))

\* eng.allocate_qureg(n) on the session's engine
allocate_qureg(s, n) ==
    Emit([s EXCEPT !.reg = [eng |-> s.eng, size |-> n]],
         Entry(s, "allocate_qureg", s.eng, n, "", <<>>, <<>>, NoneVal))

\* the qubit indices of a register
Qubits(r) == [i \in 1..r.size |-> i - 1]

deallocate(s) ==
    IF s.eng # None /\ s.backend = "Simulator"
    THEN Emit(s, Entry(s, "Measure", s.reg.eng, s.reg.size, "All", Qubits(s.reg), <<>>, NoneVal))
    ELSE s

reset_AlwaysDeallocates(s) ==
    [Emit(s, Entry(s, "Measure", s.reg.eng, s.reg.size, "All", Qubits(s.reg), <<>>, NoneVal))
        EXCEPT !.eng = None]

reset_ReleasesFirst(s) ==
    IF s.eng # None
    THEN IF s.backend = "Simulator" THEN deallocate([s EXCEPT !.eng = None]) ELSE [s EXCEPT !.eng = None]
    ELSE s

reset(s) ==
    IF s.eng # None
    THEN [(IF s.backend = "Simulator" THEN deallocate(s) ELSE s) EXCEPT !.eng = None]
    ELSE s

\* parmap, applied lazily by map(): a ParRef beyond params raises IndexError
Unbound(par, params) == \E i \in DOMAIN par : par[i].ref /\ par[i].v >= Len(params)

parmap(p, params) == IF p.ref THEN params[p.v + 1] ELSE p.v

\* Gate.execute: self.cls(*par) consumes the parameter iterator, then G | reg
GateExecute(s, g, par, qubits, params) ==
    IF Unbound(par, params)
    THEN Raise(s, "UnboundParameter")
    ELSE [Emit(s, Entry(s, "gate", qubits.eng, qubits.size, g.name, qubits.idx,
                        [i \in DOMAIN par |-> parmap(par[i], params)], NoneVal))
            EXCEPT !.val = NoneVal]

\* the circuit Observable.execute builds on the IBMBackend:
\* Circuit([Command(Rx, [0], [i]) for i in range(len(reg))], 'fake identity')
FakeIdentity_NoRotation(n) ==
    Circuit([k \in 1..n |-> Command(X, <<0>>, <<>>)], "fake identity", NoOut)

FakeIdentity(n) ==
    Circuit([k \in 1..n |-> Command(Rx, <<0>>, <<Lit(k - 1)>>)], "fake identity", NoOut)

\* the dict expectation_values
Put(ev, key, val) == [t \in DOMAIN ev \cup {key} |-> IF t = key THEN val ELSE ev[t]]

\* lines 384-386: the requested entries, or None when circuit.out is None
ReturnValue_AlwaysArray(s, circuit, ev) ==
    IF \E i \in DOMAIN circuit.out.idx : <<circuit.out.idx[i]>> \notin DOMAIN ev
    THEN Raise(s, "KeyError")
    ELSE [s EXCEPT !.ret = ArrayRet([i \in DOMAIN circuit.out.idx |-> ev[<<circuit.out.idx[i]>>]])]

ReturnValue(s, circuit, ev) ==
    IF circuit.out.given
    THEN IF \E i \in DOMAIN circuit.out.idx : <<circuit.out.idx[i]>> \notin DOMAIN ev
         THEN Raise(s, "KeyError")
         ELSE [s EXCEPT !.ret = ArrayRet([i \in DOMAIN circuit.out.idx |-> ev[<<circuit.out.idx[i]>>]])]
    ELSE [s EXCEPT !.ret = NoneRet]

\* lines 97 and 100: variance = 1 - expectation_value**2
Variance_NoSquare(e) == Unit * Unit - Unit * e

Variance(e) == Unit * Unit - e * e

\* line 91: self.n_sys != 1 and backend != 'IBMBackend'
ArityRejected_Never(o, kind) == FALSE

ArityRejected(o, kind) == o.n_sys # 1 /\ kind # "IBMBackend"

RECURSIVE execute_circuit(_, _, _, _)
RECURSIVE ObservableExecute(_, _, _, _)
RECURSIVE RunCommands(_, _, _, _, _, _)

\* Observable.execute(par, reg, sim); par is never read
ObservableExecute(s0, o, qubits, oracle) ==
    LET s == Emit(s0, Entry(s0, "estimate", qubits.eng, qubits.size, o.name, qubits.idx, <<>>, NoneVal))
        Done(t, val) ==
            [Emit(t, Entry(s0, "result", t.eng, qubits.size, o.name, qubits.idx, <<>>, val))
                EXCEPT !.val = val]
    IN
    IF s.eng = None THEN Raise(s, "AttributeError")
    ELSE IF s.backend = "IBMBackend" /\ s.eng \in s.flagged
    THEN Raise(s, "MultipleMeasurementError")
    ELSE
    LET s1 == [s EXCEPT !.flagged = @ \cup {s.eng}]
        flushed == Emit(s1, Entry(s1, "flush", s1.eng, 0, "deallocate_qubits=False", <<>>, <<>>, NoneVal))
    IN
    IF ArityRejected(o, s.backend)
    THEN Raise(s1, "SingleQubitOnly")
    ELSE IF s.backend = "Simulator"
    THEN IF o.cls \in {"pq.ops.X", "pq.ops.Y", "pq.ops.Z"}
         THEN LET e == oracle[qubits.idx[1]]
                  asked == Emit(flushed, Entry(s1, "get_expectation_value", s1.eng, qubits.size,
                                               o.cls, qubits.idx, <<>>, Answer(e)))
              IN  Done(asked, Pair(e, Variance(e)))
         ELSE IF o.cls = "AllZClass"
         THEN LET es == [i \in 1..s.reg.size |-> oracle[i - 1]]
                  asked == [flushed EXCEPT !.log = @ \o
                               [i \in 1..s.reg.size |->
                                   Entry(s1, "get_expectation_value", s1.eng, s.reg.size,
                                         "pq.ops.Z", <<i - 1>>, <<>>, Answer(es[i]))]]
              IN  Done(asked, Lists(es, [i \in DOMAIN es |-> Variance(es[i])]))
         ELSE Raise(flushed, "EstimationNotImplemented")
    ELSE IF s.backend = "ClassicalSimulator"
    THEN IF o.cls = "pq.ops.Z"
         THEN Done(flushed, Pair(Unit * oracle[qubits.idx[1]], 0))
         ELSE Raise(flushed, "EstimationNotImplemented")
    ELSE IF s.backend = "IBMBackend"
    THEN LET s2 == execute_circuit(reset(s1), FakeIdentity(Len(qubits.idx)), <<>>, oracle)
             s3 == Emit(s2, Entry(s2, "flush", s2.eng, 0, "", <<>>, <<>>, NoneVal))
         IN  IF s2.err # "none" THEN s2
             ELSE IF o.cls = "pq.ops.Z" THEN Done(s3, Pair(0, 0))
             ELSE Raise(s3, "EstimationNotImplemented")
    ELSE Raise(s1, "EstimationNotImplemented")

\* cmd.gate.execute(par, [self.reg[i] for i in cmd.reg], self)
Execute(s, cmd, params, oracle) ==
    LET qubits == [eng |-> s.reg.eng, size |-> s.reg.size, idx |-> cmd.reg]
    IN  IF \E j \in DOMAIN cmd.reg : cmd.reg[j] >= s.reg.size
        THEN Raise(s, "IndexError")
        ELSE IF cmd.gate.observable
        THEN ObservableExecute(s, cmd.gate, qubits, oracle)
        ELSE GateExecute(s, cmd.gate, cmd.par, qubits, params)

\* the catalog lookup of line 377
Supported(s, cmd) == cmd.gate.name \in s.gates \/ cmd.gate.name \in s.observables

\* the loop `for cmd in circuit.seq`, from command i on
RunCommands(s, ev, seq, i, params, oracle) ==
    IF i > Len(seq) THEN [s |-> s, ev |-> ev]
    ELSE LET s0 == IF s.depth = 1
                   THEN [s EXCEPT !.live = Append(@, [eng |-> s.eng, reg |-> s.reg])]
                   ELSE s
             s1 == Execute(s0, seq[i], params, oracle)
         IN  IF ~Supported(s0, seq[i]) THEN [s |-> Raise(s0, "UnsupportedOperation"), ev |-> ev]
             ELSE IF s1.err # "none" THEN [s |-> s1, ev |-> ev]
             ELSE RunCommands(s1, Put(ev, seq[i].reg, s1.val), seq, i + 1, params, oracle)

\* lines 358-367: a new engine unless the live register has circuit.n_sys qubits
Prepare_KeepsRegister(s, circuit) ==
    IF s.eng = None \/ s.reg = NoReg \/ circuit.n_sys # s.reg.size
    THEN MainEngine(reset(s))
    ELSE s

Prepare(s, circuit) ==
    IF s.eng = None \/ s.reg = NoReg \/ circuit.n_sys # s.reg.size
    THEN [MainEngine(reset(s)) EXCEPT !.reg = NoReg]
    ELSE s

execute_circuit(s0, circuit, params, oracle) ==
    LET s1 == Prepare([s0 EXCEPT !.depth = @ + 1, !.maxdepth = Max({@, s0.depth + 1})], circuit)
        s2 == Emit(s1, Entry(s1, "Compute", s1.eng, 0, "", <<>>, <<>>, NoneVal))
        s3 == IF s2.reg = NoReg THEN allocate_qureg(s2, circuit.n_sys) ELSE s2
        r  == RunCommands(s3, <<>>, circuit.seq, 1, params, oracle)
        s4 == Emit(r.s, Entry(s1, "EndCompute", s1.eng, 0, "", <<>>, <<>>, NoneVal))
        s5 == IF s4.err # "none" THEN s4 ELSE ReturnValue(s4, circuit, r.ev)
    IN  [s5 EXCEPT !.depth = s0.depth]

\* expection_value(observable, reg), reached through measure()
expection_value(s, o, r, oracle) ==
    IF s.reg = NoReg THEN Raise(s, "TypeError")
    ELSE IF \E j \in DOMAIN r : r[j] >= s.reg.size THEN Raise(s, "IndexError")
    ELSE LET s1 == ObservableExecute(s, o, [eng |-> s.reg.eng, size |-> s.reg.size, idx |-> r], oracle)
         IN  IF s1.err # "none" THEN s1 ELSE [s1 EXCEPT !.ret = [tag |-> "value", vals |-> <<s1.val>>]]

----------------------------------------------------------------------------
(* Capability negotiation, PluginAPI.__init__. *)

Kinds == {"Simulator", "ClassicalSimulator", "IBMBackend"}

\* the list comprehensions of lines 280 and 289, and gates+=[CNOT] of line 290
EffectiveGates_NoForce(kind, avail) ==
    IF kind = "Simulator" THEN Names(GateList) ELSE {n \in Names(GateList) : n \in avail}

EffectiveGates(kind, avail) ==
    IF kind = "Simulator" THEN Names(GateList)
    ELSE IF kind = "ClassicalSimulator" THEN {n \in Names(GateList) : n \in avail}
    ELSE {n \in Names(GateList) : n \in avail} \cup {CNOT.name}

EffectiveObservables(kind) ==
    IF kind = "Simulator" THEN Names(ObservableList) ELSE {MeasureZ.name}

\* the throwaway engine and scratch register of lines 276-280 / 285-289:
\* both are locals of __init__, self.eng is not assigned
ProbeBackend(s) ==
    LET id == s.engines + 1
        width == Max({GateList[i].n_sys : i \in DOMAIN GateList})
        e(op, size, name) == Entry(s, op, id, size, name, <<>>, <<>>, NoneVal)
    IN  [s EXCEPT !.engines = id,
                  !.log = @ \o <<e("MainEngine", 0, s.backend), e("Compute", 0, ""),
                                 e("allocate_qureg", width, "")>>
                            \o [i \in DOMAIN GateList |-> e("is_available", GateList[i].n_sys, GateList[i].name)]
                            \o <<e("EndCompute", 0, "")>>]

init_KeepsProbeEngine(s, kind, avail) ==
    LET s1 == [s EXCEPT !.backend = kind]
        s2 == ProbeBackend(s1)
    IN  IF kind \notin Kinds THEN Raise(s1, "UnknownBackend")
        ELSE IF kind = "Simulator"
        THEN [s1 EXCEPT !.gates = EffectiveGates(kind, avail),
                        !.observables = EffectiveObservables(kind)]
        ELSE [s2 EXCEPT !.gates = EffectiveGates(kind, avail),
                        !.observables = EffectiveObservables(kind),
                        !.eng = s2.engines,
                        !.reg = [eng |-> s2.engines, size |-> 2]]

init_ProbesFirst(s, kind, avail) ==
    LET s1 == [s EXCEPT !.backend = kind]
        s2 == IF kind = "Simulator" THEN s1 ELSE ProbeBackend(s1)
    IN  IF kind \notin Kinds THEN Raise(s2, "UnknownBackend")
        ELSE [s2 EXCEPT !.gates = EffectiveGates(kind, avail),
                        !.observables = EffectiveObservables(kind),
                        !.eng = None,
                        !.reg = NoReg]

init(s, kind, avail) ==
    LET s1 == [s EXCEPT !.backend = kind]
    IN  IF kind \notin Kinds THEN Raise(s1, "UnknownBackend")
        ELSE [(IF kind = "Simulator" THEN s1 ELSE ProbeBackend(s1))
                EXCEPT !.gates = EffectiveGates(kind, avail),
                       !.observables = EffectiveObservables(kind),
                       !.eng = None,
                       !.reg = NoReg]

\* the same probing when the backend raises for the gates of `raising`, while
\* gate.cls(...) or pq.ops.Command(...) is built or is_available is queried:
\* the list comprehension of line 280 / 289 stops at the first such gate and
\* the exception leaves the with block and __init__
ProbeRaising(s, raising) ==
    LET id == s.engines + 1
        width == Max({GateList[i].n_sys : i \in DOMAIN GateList})
        k == CHOOSE i \in DOMAIN GateList :
                /\ GateList[i].name \in raising
                /\ \A j \in 1..(i - 1) : GateList[j].name \notin raising
        e(op, size, name) == Entry(s, op, id, size, name, <<>>, <<>>, NoneVal)
    IN  [s EXCEPT !.engines = id,
                  !.err = "ProbeError",
                  !.log = @ \o <<e("MainEngine", 0, s.backend), e("Compute", 0, ""),
                                 e("allocate_qureg", width, "")>>
                            \o [i \in 1..(k - 1) |-> e("is_available", GateList[i].n_sys, GateList[i].name)]
                            \o <<e("probe_raised", GateList[k].n_sys, GateList[k].name),
                                 e("EndCompute", 0, "")>>]

\* PluginAPI.__init__ on a backend that answers avail and raises for raising
init_probing(s, kind, avail, raising) ==
    IF kind \in {"ClassicalSimulator", "IBMBackend"} /\ raising \cap Names(GateList) # {}
    THEN ProbeRaising([s EXCEPT !.backend = kind], raising)
    ELSE init(s, kind, avail)

----------------------------------------------------------------------------
(* Inputs. *)

\* probe answers a backend may give: everything, or all but some of these
Doubtful == {Rx.name, CNOT.name}
ProbeOutcomes == {Names(GateList) \ D : D \in SUBSET Doubtful}

Commands ==
    { Command(Rx, <<0>>, <<ParRef(0)>>),
      Command(X, <<0>>, <<>>),
      Command(CNOT, <<0, 1>>, <<>>),
      Command(MeasureZ, <<0>>, <<>>),
      Command(MeasureZ, <<1>>, <<>>),
      Command(MeasureX, <<0>>, <<>>),
      Command(Ph, <<0>>, <<ParRef(1)>>) }

Outs == {NoOut, Out(<<>>), Out(<<0>>), Out(<<1, 0>>)}

Circuits ==
    {Circuit(seq, "c", out) : seq \in UNION {[1..n -> Commands] : n \in 1..MaxLen}, out \in Outs}

ParamLists == {<<>>, <<7>>}

\* the backend's answers to get_expectation_value (in units of 1 / Unit) or
\* read_bit (a bit), per qubit
Oracles == [{0, 1} -> {0, 1}]

\* the answers a backend of this kind can be asked for: the IBMBackend branch
\* of Observable.execute queries nothing (its read-back is commented out)
Answers(kind) == IF kind = "IBMBackend" THEN {[q \in {0, 1} |-> 0]} ELSE Oracles

NoCircuit == Circuit(<<>>, "", NoOut)

----------------------------------------------------------------------------
(* The state machine: one action per public operation of the session. *)

self ==
    [backend |-> backend, gates |-> gates, observables |-> observables,
     eng |-> eng, reg |-> reg, flagged |-> flagged, engines |-> engines,
     log |-> <<>>, err |-> "none", val |-> NoneVal, ret |-> NoneRet,
     depth |-> 0, maxdepth |-> 0, live |-> <<>>]

Finish(op, top, r, circuit, params, avail) ==
    /\ pc' = "returned"
    /\ backend' = r.backend
    /\ gates' = r.gates
    /\ observables' = r.observables
    /\ eng' = r.eng
    /\ reg' = r.reg
    /\ flagged' = r.flagged \cap {r.eng, r.reg.eng}
    /\ engines' = r.engines
    /\ log' = r.log
    /\ estimated' = IF op = "reset" THEN FALSE
                    ELSE estimated \/ \E i \in DOMAIN r.log : r.log[i].op = "result" /\ r.log[i].depth = top
    /\ last' = [op |-> op, top |-> top, circuit |-> circuit, params |-> params, avail |-> avail,
                err |-> r.err, ret |-> IF r.err = "none" THEN r.ret ELSE NoneRet,
                pre_eng |-> eng, pre_reg |-> reg, pre_est |-> estimated, pre_engines |-> engines,
                maxdepth |-> r.maxdepth, live |-> r.live]

Idle == [op |-> "", top |-> 0, circuit |-> NoCircuit, params |-> <<>>, avail |-> {},
         err |-> "none", ret |-> NoneRet,
         pre_eng |-> None, pre_reg |-> NoReg, pre_est |-> FALSE, pre_engines |-> 0, maxdepth |-> 0,
         live |-> <<>>]

Returned(op, top, r, circuit, params, avail) ==
    /\ r.engines <= MaxEngines
    /\ Finish(op, top, r, circuit, params, avail)
    /\ UNCHANGED first

NoRun == [stage |-> "none", circuit |-> NoCircuit, params |-> <<>>, err |-> "none", ret |-> NoneRet]

Init ==
    /\ pc = "new"
    /\ backend = ""
    /\ gates = {}
    /\ observables = {}
    /\ eng = None
    /\ reg = NoReg
    /\ flagged = {}
    /\ engines = 0
    /\ estimated = FALSE
    /\ log = <<>>
    /\ last = Idle
    /\ first = NoRun

\* PluginAPI(backend=kind), the backend answering its probes with avail
Construct(outcomes) ==
    /\ pc = "new"
    /\ \E kind \in Kinds \cup {"bogus"}, avail \in outcomes :
          Returned("init", 0, init(self, kind, avail), NoCircuit, <<>>, avail)

ExecuteCircuit ==
    /\ pc = "idle"
    /\ \E circuit \in Circuits, params \in ParamLists, oracle \in Answers(backend) :
          Returned("execute_circuit", 1, execute_circuit(self, circuit, params, oracle),
                   circuit, params, {})

Measure ==
    /\ pc = "idle"
    /\ \E o \in {MeasureZ, MeasureX}, q \in {0, 1}, oracle \in Answers(backend) :
          Returned("measure", 0, expection_value(self, o, <<q>>, oracle),
                   Circuit(<<Command(o, <<q>>, <<>>)>>, "measure", NoOut), <<>>, {})

Reset ==
    /\ pc = "idle"
    /\ Returned("reset", 0, reset(self), NoCircuit, <<>>, {})

\* __del__: the finalizer runs reset()
Del ==
    /\ pc = "idle"
    /\ Returned("del", 0, reset(self), NoCircuit, <<>>, {})

\* control is back with the caller, which takes the result of the call
Return ==
    /\ pc = "returned"
    /\ pc' = IF last.op = "del" \/ last.err = "UnknownBackend" THEN "dead" ELSE "idle"
    /\ log' = <<>>
    /\ last' = Idle
    /\ UNCHANGED <<backend, gates, observables, eng, reg, flagged, engines, estimated, first>>

Next ==
    \/ Construct(ProbeOutcomes)
    \/ ExecuteCircuit
    \/ Measure
    \/ Reset
    \/ Del
    \/ Return

Spec == Init /\ [][Next]_vars

\* capability negotiation alone, the backend answering with any subset of the catalog
NextNegotiate == Construct(SUBSET Names(GateList))

SpecNegotiate == Init /\ [][NextNegotiate]_vars

----------------------------------------------------------------------------
(* A caller that repeats a run: execute_circuit(C); reset();               *)
(* execute_circuit(C) with the same circuit and parameters.                *)

session == <<backend, gates, observables, eng, reg, flagged, engines, estimated>>

\* the caller keeps the circuit, the parameters and the outcome of the run
Keep ==
    /\ pc = "returned"
    /\ last.op = "execute_circuit"
    /\ first = NoRun
    /\ pc' = "idle"
    /\ log' = <<>>
    /\ last' = Idle
    /\ first' = [stage |-> "kept", circuit |-> last.circuit, params |-> last.params,
                 err |-> last.err, ret |-> last.ret]
    /\ UNCHANGED session

ResetBetween ==
    /\ pc = "idle"
    /\ first.stage = "kept"
    /\ Finish("reset", 0, reset(self), NoCircuit, <<>>, {})
    /\ first' = [first EXCEPT !.stage = "reset"]

Rerun ==
    /\ pc = "idle"
    /\ first.stage = "reset"
    /\ \E oracle \in Answers(backend) :
          LET r == execute_circuit(self, first.circuit, first.params, oracle)
          IN  /\ r.engines <= MaxRerunEngines
              /\ Finish("execute_circuit", 1, r, first.circuit, first.params, {})
    /\ first' = [first EXCEPT !.stage = "rerun"]

\* the caller has compared the two runs
Forget ==
    /\ pc = "returned"
    /\ first.stage = "rerun"
    /\ pc' = "idle"
    /\ log' = <<>>
    /\ last' = Idle
    /\ first' = NoRun
    /\ UNCHANGED session

\* calls made while no run is kept, and the return from every call but the rerun
FirstRun == first = NoRun /\ ExecuteCircuit
FirstMeasure == first = NoRun /\ Measure
ReturnBetween == first.stage # "rerun" /\ Return

NextRerun ==
    \/ Construct(ProbeOutcomes)
    \/ FirstRun
    \/ FirstMeasure
    \/ ReturnBetween
    \/ Keep
    \/ ResetBetween
    \/ Rerun
    \/ Forget

SpecRerun == Init /\ [][NextRerun]_vars

----------------------------------------------------------------------------
(* Estimation on the state-vector Simulator, the backend answering         *)
(* get_expectation_value with any value k / Unit of [-1, 1].               *)

Values == (0 - Unit)..Unit
ValueOracles == [{0, 1} -> Values]

EstimateCommands ==
    { Command(MeasureX, <<0>>, <<>>),
      Command(MeasureY, <<1>>, <<>>),
      Command(MeasureZ, <<0>>, <<>>),
      Command(MeasureAllZ, <<0>>, <<>>),
      Command(X, <<1>>, <<>>) }

EstimateCircuits ==
    {Circuit(seq, "e", out) : seq \in UNION {[1..n -> EstimateCommands] : n \in 1..MaxLen},
                              out \in {NoOut, Out(<<0>>)}}

Estimate ==
    /\ pc = "idle"
    /\ backend = "Simulator"
    /\ \E circuit \in EstimateCircuits, oracle \in ValueOracles :
          Returned("execute_circuit", 1, execute_circuit(self, circuit, <<>>, oracle),
                   circuit, <<>>, {})

NextEstimate ==
    \/ Construct({Names(GateList)})
    \/ Estimate
    \/ Return

SpecEstimate == Init /\ [][NextEstimate]_vars

----------------------------------------------------------------------------
(* A caller that applies a gate descriptor itself:                         *)
(* gate.execute(par, [sim.reg[i] for i in idx], sim).                      *)

GateDirect ==
    /\ pc = "idle"
    /\ reg # NoReg
    /\ \E cmd \in {Command(X, <<0>>, <<>>), Command(Rx, <<0>>, <<Lit(1)>>), Command(CNOT, <<0, 1>>, <<>>)} :
          /\ \A j \in DOMAIN cmd.reg : cmd.reg[j] < reg.size
          /\ Returned("gate_execute", 0,
                      GateExecute(self, cmd.gate, cmd.par,
                                  [eng |-> reg.eng, size |-> reg.size, idx |-> cmd.reg], <<>>),
                      Circuit(<<cmd>>, "direct", NoOut), <<>>, {})

NextDirect ==
    \/ Construct(ProbeOutcomes)
    \/ ExecuteCircuit
    \/ Measure
    \/ Reset
    \/ Del
    \/ Return
    \/ GateDirect

SpecDirect == Init /\ [][NextDirect]_vars

----------------------------------------------------------------------------
(* Capability negotiation on a backend whose probes may raise. *)

Fragile == {H.name, Rx.name, CNOT.name, CZ.name}

ConstructProbing ==
    /\ pc = "new"
    /\ \E kind \in Kinds, D \in SUBSET Fragile, raising \in SUBSET Fragile :
          Returned("init", 0, init_probing(self, kind, Names(GateList) \ D, raising),
                   NoCircuit, <<>>, Names(GateList) \ D)

NextProbing == ConstructProbing

SpecProbing == Init /\ [][NextProbing]_vars

----------------------------------------------------------------------------
(* A caller that measures an observable on two subsystems, on a session   *)
(* that ran one- and two-qubit circuits before.                            *)

EarlierCircuits ==
    {Circuit(<<cmd>>, "c", NoOut) :
        cmd \in {Command(X, <<0>>, <<>>), Command(CNOT, <<0, 1>>, <<>>),
                 Command(MeasureZ, <<0>>, <<>>), Command(MeasureZ, <<1>>, <<>>)}}

ExecuteEarlier ==
    /\ pc = "idle"
    /\ \E circuit \in EarlierCircuits, oracle \in Answers(backend) :
          Returned("execute_circuit", 1, execute_circuit(self, circuit, <<>>, oracle),
                   circuit, <<>>, {})

MeasureWide ==
    /\ pc = "idle"
    /\ \E r \in {<<0, 1>>, <<1, 0>>}, oracle \in Answers(backend) :
          Returned("measure", 0, expection_value(self, MeasureZZ, r, oracle),
                   Circuit(<<Command(MeasureZZ, r, <<>>)>>, "measure", NoOut), <<>>, {})

NextWide ==
    \/ Construct(ProbeOutcomes)
    \/ ExecuteEarlier
    \/ Reset
    \/ Return
    \/ MeasureWide

SpecWide == Init /\ [][NextWide]_vars

----------------------------------------------------------------------------
(* Reading the record of a finished call. *)

AfterExecute == pc = "returned" /\ last.op = "execute_circuit"

\* the commands of the call's own circuit that were started / that completed
Started == SelectSeq(log, LAMBDA e : e.depth = last.top /\ e.op \in {"gate", "estimate"})
Completed == SelectSeq(log, LAMBDA e : e.depth = last.top /\ e.op \in {"gate", "result"})

\* an estimation (entry p of the log) that follows a completed estimation
FollowsAnEstimation(p) ==
    /\ log[p].op = "estimate"
    /\ log[p].depth = last.top
    /\ \/ last.pre_est
       \/ \E r \in 1..(p - 1) : log[r].op = "result" /\ log[r].depth = last.top

\* the descriptor is in the catalog of its own kind
InOwnCatalog(cmd) ==
    IF cmd.gate.observable THEN cmd.gate.name \in observables ELSE cmd.gate.name \in gates

----------------------------------------------------------------------------
(* C1: on an IBMBackend session, an estimation that follows a completed    *)
(* estimation, with no reset() call between them, fails with               *)
(* MultipleMeasurementError, be the two in one circuit or in successive    *)
(* calls (stated for calls whose descriptors are all supported).           *)
C1_SecondEstimationFails ==
    (/\ pc = "returned"
     /\ backend = "IBMBackend"
     /\ last.op \in {"execute_circuit", "measure"}
     /\ \A i \in DOMAIN last.circuit.seq : InOwnCatalog(last.circuit.seq[i]))
        => \A p \in DOMAIN log :
              FollowsAnEstimation(p) => last.err = "MultipleMeasurementError"

(* C2: between public operations the engine handle is None exactly when    *)
(* the register handle is None.                                            *)
C2_HandlesNullTogether ==
    pc \in {"idle", "returned", "dead"} => ((eng = None) <=> (reg = NoReg))

(* C3: reset() on a session whose engine handle is None issues no backend  *)
(* operation and changes no field of the session, on every backend.        *)
C3_ResetIdempotent ==
    [][(pc = "idle" /\ eng = None /\ pc' = "returned" /\ last'.op = "reset")
          => (log' = <<>> /\ last'.err = "none"
              /\ UNCHANGED <<backend, gates, observables, eng, reg, flagged, engines>>)]_vars

C3_Witness ==
    /\ pc = "returned"
    /\ last.op = "reset"
    /\ last.pre_eng = None
    /\ reg # NoReg
    /\ reg = last.pre_reg

(* C4: execute_circuit with a circuit whose qubit count differs from the   *)
(* size of the live register resets, then builds a new engine and a        *)
(* register of circuit.n_sys qubits before the first command; and every    *)
(* command of the circuit is applied to a register of circuit.n_sys qubits.*)
C4_RegisterMatchesCircuit ==
    AfterExecute =>
        /\ (last.pre_eng # None /\ last.pre_reg # NoReg /\ last.circuit.n_sys # last.pre_reg.size)
              => \E p \in DOMAIN log :
                    /\ log[p].op = "MainEngine"
                    /\ log[p].eng > last.pre_engines
                    /\ log[p + 2].op = "allocate_qureg"
                    /\ log[p + 2].eng = log[p].eng
                    /\ log[p + 2].size = last.circuit.n_sys
                    /\ \A r \in 1..(p + 2) : log[r].op \notin {"gate", "estimate"}
        /\ \A p \in DOMAIN log :
              (log[p].depth = last.top /\ log[p].op \in {"gate", "estimate"})
                  => log[p].size = last.circuit.n_sys

(* C5: after construction the effective gate set is a subset of the        *)
(* catalog whatever the probes answer, and on the IBMBackend it holds CNOT *)
(* even when the probe reports CNOT unavailable.                           *)
C5_EffectiveGates ==
    (pc = "returned" /\ last.op = "init" /\ last.err = "none")
        => /\ gates \subseteq Names(GateList)
           /\ backend = "IBMBackend" => CNOT.name \in gates

C5_Witness ==
    /\ pc = "returned"
    /\ last.op = "init"
    /\ backend = "IBMBackend"
    /\ CNOT.name \notin last.avail
    /\ CNOT.name \in gates
    /\ Rx.name \notin gates

(* C6: construction leaves self.eng and self.reg None and applies no gate; *)
(* the first execute_circuit builds an engine that did not exist before    *)
(* and allocates the register on it.                                       *)
C6_ProbeLeavesNoSession ==
    /\ (pc = "returned" /\ last.op = "init" /\ last.err = "none")
          => /\ eng = None
             /\ reg = NoReg
             /\ \A p \in DOMAIN log : log[p].op \notin {"gate", "estimate"}
    /\ (AfterExecute /\ last.pre_reg = NoReg)
          => /\ last.pre_eng = None
             /\ Len(log) >= 3
             /\ log[1].op = "MainEngine"
             /\ log[1].eng > last.pre_engines
             /\ log[3].op = "allocate_qureg"
             /\ log[3].eng = log[1].eng
             /\ log[3].size = last.circuit.n_sys

C6_Witness ==
    /\ AfterExecute
    /\ backend = "IBMBackend"
    /\ last.pre_reg = NoReg
    /\ last.pre_engines = 1
    /\ log[1].eng = 2
    /\ reg = [eng |-> 2, size |-> 2]

(* C7: a command whose descriptor is not in the effective catalog of its   *)
(* own kind (gates for a gate, observables for an observable) fails with   *)
(* UnsupportedOperation at that command and is not executed.               *)
C7_UnsupportedRejected ==
    AfterExecute =>
        \A i \in DOMAIN last.circuit.seq :
            ~InOwnCatalog(last.circuit.seq[i])
                => /\ Len(Started) < i
                   /\ Len(Completed) = i - 1 => last.err = "UnsupportedOperation"

(* C8: the result of a circuit with declared outputs has one entry per     *)
(* output qubit, in the order of out, each the pair the estimator returned *)
(* for an observable command on exactly that qubit.                        *)
C8_ResultsAreEstimates ==
    (AfterExecute /\ last.circuit.out.given /\ last.err = "none")
        => /\ Len(last.ret.vals) = Len(last.circuit.out.idx)
           /\ \A i \in DOMAIN last.circuit.out.idx :
                 \E p \in DOMAIN log :
                    /\ log[p].op = "result"
                    /\ log[p].depth = last.top
                    /\ log[p].q = <<last.circuit.out.idx[i]>>
                    /\ log[p].val = last.ret.vals[i]

(* C9: a circuit with no declared output returns no result value, and      *)
(* every command of it was applied, in the declared order.                 *)
C9_NoOutputStillRuns ==
    (AfterExecute /\ last.err = "none"
        /\ (~last.circuit.out.given \/ last.circuit.out.idx = <<>>))
        => /\ last.ret.vals = <<>>
           /\ ~last.circuit.out.given => last.ret = NoneRet
           /\ Len(Started) = Len(last.circuit.seq)
           /\ \A i \in DOMAIN last.circuit.seq :
                 /\ Started[i].name = last.circuit.seq[i].gate.name
                 /\ Started[i].q = last.circuit.seq[i].reg
                 /\ (Started[i].op = "estimate") <=> last.circuit.seq[i].gate.observable

C9_Witness ==
    /\ AfterExecute
    /\ last.err = "none"
    /\ ~last.circuit.out.given
    /\ last.ret = NoneRet
    /\ Len(last.circuit.seq) = 2
    /\ Len(Started) = 2
    /\ Started[1].name # Started[2].name

(* C10: a command carrying a ParRef beyond the supplied parameter list     *)
(* fails with UnboundParameter at that command, also when its descriptor   *)
(* is unsupported, and is not applied.                                     *)
C10_UnboundRejected ==
    AfterExecute =>
        \A i \in DOMAIN last.circuit.seq :
            Unbound(last.circuit.seq[i].par, last.params)
                => /\ Len(Completed) < i
                   /\ Len(Completed) = i - 1 => last.err = "UnboundParameter"

(* C11: when a command of a circuit fails during execute_circuit, no later *)
(* command is applied, the commands before it stay applied, the error      *)
(* reaches the caller after one attempt, and self.eng / self.reg are the   *)
(* pair that was live when the failing command started (stated for calls  *)
(* whose descriptors are all supported).                                   *)
C11_FailureLeavesSession ==
    (/\ AfterExecute
     /\ last.err \notin {"none", "KeyError"}
     /\ \A i \in DOMAIN last.circuit.seq : InOwnCatalog(last.circuit.seq[i]))
        => LET f == Len(last.live)
           IN  /\ f >= 1
               /\ Len(Started) <= f
               /\ Len(Completed) = f - 1
               /\ \A i \in 1..(f - 1) :
                     /\ Completed[i].name = last.circuit.seq[i].gate.name
                     /\ Completed[i].q = last.circuit.seq[i].reg
               /\ eng = last.live[f].eng
               /\ reg = last.live[f].reg

\* entry e discards every qubit of register r on r's engine
IsDiscard(e, r) == e.op = "Measure" /\ e.eng = r.eng /\ e.size = r.size /\ e.q = Qubits(r)

(* C12: on the Simulator every reset of an allocated session (explicit     *)
(* reset(), the reset forced by a qubit-count mismatch, the reset run by   *)
(* the finalizer) measures every qubit of the register and then releases   *)
(* the engine; on the ClassicalSimulator and the IBMBackend reset releases *)
(* the engine and issues no discard operation.                             *)
C12_DiscardBeforeRelease ==
    /\ (pc = "returned" /\ last.op \in {"reset", "del"} /\ last.pre_eng # None)
          => /\ eng = None
             /\ IF backend = "Simulator"
                THEN Len(log) = 1 /\ IsDiscard(log[1], last.pre_reg)
                ELSE log = <<>>
    /\ (AfterExecute /\ last.pre_eng # None /\ last.pre_reg # NoReg
            /\ last.circuit.n_sys # last.pre_reg.size)
          => /\ IF backend = "Simulator"
                THEN IsDiscard(log[1], last.pre_reg) /\ log[2].op = "MainEngine"
                ELSE log[1].op = "MainEngine"
             /\ eng # last.pre_eng
    /\ pc = "returned"
          => \A p \in DOMAIN log :
                log[p].op = "Measure"
                    => backend = "Simulator" /\ p = 1 /\ last.pre_eng # None

C12_Witness ==
    /\ AfterExecute
    /\ backend = "Simulator"
    /\ last.pre_reg = [eng |-> 1, size |-> 2]
    /\ last.circuit.n_sys = 1
    /\ log[1].op = "Measure"
    /\ log[1].q = <<0, 1>>
    /\ log[2].op = "MainEngine"
    /\ eng = 2

(* C13: in execute_circuit(C); reset(); execute_circuit(C) the second      *)
(* execution builds a new engine and allocates a new register on it, no    *)
(* command of it is applied to the register of the first run, and when the *)
(* first run returned a result the second returns one of the same shape    *)
(* (same length, same order of entries).                                   *)
C13_RerunAllocatesAnew ==
    (pc = "returned" /\ first.stage = "rerun")
        => /\ Len(log) >= 3
           /\ log[1].op = "MainEngine"
           /\ log[1].eng > last.pre_engines
           /\ log[3].op = "allocate_qureg"
           /\ log[3].eng = log[1].eng
           /\ log[3].size = last.circuit.n_sys
           /\ \A p \in DOMAIN log :
                 log[p].op \in {"gate", "estimate"}
                     => log[p].eng # last.pre_reg.eng /\ log[p].eng > last.pre_engines
           /\ first.err = "none"
                 => /\ last.err = "none"
                    /\ last.ret.tag = first.ret.tag
                    /\ Len(last.ret.vals) = Len(first.ret.vals)
                    /\ \A i \in DOMAIN first.ret.vals :
                          last.ret.vals[i].tag = first.ret.vals[i].tag

C13_Witness ==
    /\ pc = "returned"
    /\ first.stage = "rerun"
    /\ backend = "Simulator"
    /\ first.err = "none"
    /\ last.err = "none"
    /\ last.circuit.out.idx = <<1, 0>>
    /\ Len(last.ret.vals) = 2
    /\ last.ret # first.ret
    /\ last.pre_reg.size = 2
    /\ reg.eng > last.pre_reg.eng

(* C14: constructing a session with a backend kind that is not one of the  *)
(* recognized kinds fails with UnknownBackend, and no engine is built and  *)
(* no register allocated before the failure.                               *)
C14_UnknownBackendFailsFirst ==
    (pc = "returned" /\ last.op = "init" /\ backend \notin Kinds)
        => /\ last.err = "UnknownBackend"
           /\ log = <<>>
           /\ engines = last.pre_engines
           /\ eng = None
           /\ reg = NoReg

C14_Witness ==
    /\ pc = "returned"
    /\ last.op = "init"
    /\ backend = "bogus"
    /\ last.err = "UnknownBackend"
    /\ engines = 0

(* C15: on the Simulator the estimator returns, for X, Y and Z, the value  *)
(* e the backend answered, unchanged, with the variance 1 - e*e, and for   *)
(* AllZ two parallel sequences holding e_q and 1 - e_q*e_q for every qubit *)
(* q of the register, in register order; for every e = k / Unit in [-1, 1].*)
C15_SimulatorVariance ==
    (pc = "returned" /\ backend = "Simulator")
        => \A p \in DOMAIN log :
              log[p].op = "result"
                  => IF log[p].name \in {MeasureX.name, MeasureY.name, MeasureZ.name}
                     THEN /\ p > 1
                          /\ log[p - 1].op = "get_expectation_value"
                          /\ log[p - 1].q = log[p].q
                          /\ log[p].val.tag = "pair"
                          /\ log[p].val.ev = log[p - 1].val.ev
                          /\ LET e == log[p].val.ev[1]
                             IN  e \in Values /\ log[p].val.var = <<Unit * Unit - e * e>>
                     ELSE LET n == log[p].size
                              ask(i) == log[p - n - 1 + i]
                          IN  /\ p > n
                              /\ log[p].val.tag = "lists"
                              /\ Len(log[p].val.ev) = n
                              /\ Len(log[p].val.var) = n
                              /\ \A i \in 1..n :
                                    /\ ask(i).op = "get_expectation_value"
                                    /\ ask(i).q = <<i - 1>>
                                    /\ log[p].val.ev[i] = ask(i).val.ev[1]
                                    /\ log[p].val.var[i] = Unit * Unit - ask(i).val.ev[1] * ask(i).val.ev[1]

C15_Witness ==
    /\ pc = "returned"
    /\ backend = "Simulator"
    /\ last.err = "none"
    /\ \E p \in DOMAIN log :
          /\ log[p].op = "result"
          /\ log[p].name = MeasureAllZ.name
          /\ log[p].val = Lists(<<0 - 1, Unit>>, <<Unit * Unit - 1, 0>>)
    /\ \E p \in DOMAIN log :
          /\ log[p].op = "result"
          /\ log[p].name = MeasureY.name
          /\ log[p].q = <<1>>
          /\ log[p].val = Pair(Unit, 0)

(* C16: Gate.execute against a session whose engine handle is None fails   *)
(* with UnsupportedOperation and issues no operation to any backend.       *)
C16_GateNeedsEngine ==
    (pc = "returned" /\ last.op = "gate_execute" /\ last.pre_eng = None)
        => last.err = "UnsupportedOperation" /\ log = <<>>

(* C17: during capability negotiation a probe that raises is absorbed: the *)
(* construction completes without raising, the gate is left out of the     *)
(* effective catalog (CNOT on the IBMBackend apart, which is always added) *)
(* and every other candidate is still probed.                              *)
C17_ProbeFailureAbsorbed ==
    (pc = "returned" /\ last.op = "init")
        => \A p \in DOMAIN log :
              log[p].op = "probe_raised"
                  => /\ last.err = "none"
                     /\ log[p].name \notin gates \/ (backend = "IBMBackend" /\ log[p].name = CNOT.name)
                     /\ \A i \in DOMAIN GateList :
                           \E r \in DOMAIN log :
                              /\ log[r].op \in {"is_available", "probe_raised"}
                              /\ log[r].name = GateList[i].name

\* the call measured an observable on more than one subsystem
MeasuredWide ==
    /\ pc = "returned"
    /\ last.op = "measure"
    /\ last.circuit.seq[1].gate.n_sys > 1

(* C18: an observable on more than one qubit is rejected with an error on  *)
(* the Simulator and the ClassicalSimulator (by the arity check when the   *)
(* session has an engine) and no value is estimated for it; on the         *)
(* IBMBackend the arity check does not reject it.                          *)
C18_WideObservableRejected ==
    MeasuredWide
        => IF backend \in {"Simulator", "ClassicalSimulator"}
           THEN /\ last.err # "none"
                /\ (last.pre_eng # None /\ last.pre_reg.size >= 2) => last.err = "SingleQubitOnly"
                /\ \A p \in DOMAIN log : log[p].op \notin {"result", "get_expectation_value", "flush"}
           ELSE last.err # "SingleQubitOnly"

C18_Witness ==
    /\ MeasuredWide
    /\ backend = "ClassicalSimulator"
    /\ last.pre_eng # None
    /\ last.pre_reg.size = 2
    /\ last.err = "SingleQubitOnly"
    /\ log # <<>>

\* entries p and r of the log are the start and the result of one estimation
OneEstimation(p, r) ==
    /\ p < r
    /\ log[p].op = "estimate"
    /\ log[r].op = "result"
    /\ log[r].depth = log[p].depth
    /\ \A m \in (p + 1)..(r - 1) :
          log[m].depth = log[p].depth => log[m].op \notin {"estimate", "result"}

(* C19: on the IBMBackend an estimation of Z on target qubits q1..qn does, *)
(* in this order: a reset followed by a new engine, a throwaway circuit of *)
(* n rotations Rx of angle 0, one on each target qubit, a flush; and it    *)
(* returns the pair (0, 0).                                                *)
C19_RemoteZEstimation ==
    (pc = "returned" /\ backend = "IBMBackend")
        => \A p, r \in DOMAIN log :
              OneEstimation(p, r)
                  => LET mid == SubSeq(log, p + 1, r - 1)
                         rot == SelectSeq(mid, LAMBDA e : e.op = "gate")
                     IN  /\ Len(mid) >= 3
                         /\ mid[1].op = "MainEngine"
                         /\ mid[Len(mid) - 1].op = "EndCompute"
                         /\ mid[Len(mid)].op = "flush"
                         /\ Len(rot) = Len(log[p].q)
                         /\ \A i \in DOMAIN rot : rot[i].name = Rx.name /\ rot[i].par = <<0>>
                         /\ {rot[i].q : i \in DOMAIN rot} = {<<log[p].q[j]>> : j \in DOMAIN log[p].q}
                         /\ log[r].val = Pair(0, 0)

(* C20: one execute_circuit pass runs inside a single compute scope on a   *)
(* single engine/register pair: self.eng and self.reg are the same at the  *)
(* start of every command and at the return as at the start of the first   *)
(* command, and every command is applied to that register, on every        *)
(* backend and also when the circuit holds observable commands (stated    *)
(* for the passes that run to their last command).                         *)
C20_OnePairPerPass ==
    (AfterExecute /\ last.err = "none")
        => /\ \A i \in DOMAIN last.live : last.live[i] = last.live[1]
           /\ eng = last.live[1].eng
           /\ reg = last.live[1].reg
           /\ \A p \in DOMAIN log :
                 (log[p].depth = last.top /\ log[p].op \in {"gate", "estimate"})
                     => log[p].eng = last.live[1].reg.eng
           /\ Cardinality({p \in DOMAIN log : log[p].op = "Compute"}) = 1

\* the rotation gates of the catalog
Rotations == {Rx.name, Ry.name, Rz.name, R.name}

(* C21: every call of execute_circuit returns or raises: the nested        *)
(* execute_circuit started by the estimator of the IBMBackend applies      *)
(* rotation gates only and estimates nothing, so execute_circuit is never  *)
(* nested deeper than two, no other backend nests it at all, and each      *)
(* command of the caller's circuit is started at most once.                *)
C21_NestingBounded ==
    AfterExecute
        => /\ last.maxdepth <= 2
           /\ backend # "IBMBackend" => last.maxdepth = 1
           /\ \A p \in DOMAIN log :
                 /\ log[p].depth \in 1..2
                 /\ log[p].depth = 2
                       => /\ log[p].op \notin {"estimate", "result"}
                          /\ log[p].op = "gate" => log[p].name \in Rotations
           /\ Len(Started) <= Len(last.circuit.seq)
           /\ log[Len(log)].op = "EndCompute"
           /\ log[Len(log)].depth = 1

C21_Witness ==
    /\ AfterExecute
    /\ backend = "IBMBackend"
    /\ last.err = "none"
    /\ last.maxdepth = 2
    /\ Len(last.circuit.seq) = 2
    /\ Len(SelectSeq(log, LAMBDA e : e.depth = 2 /\ e.op = "gate")) = 2
    /\ Len(SelectSeq(log, LAMBDA e : e.depth = 1 /\ e.op = "result")) = 2

=============================================================================
